---- MODULE Spec2Model ----
(***************************************************************************)
(* A model of bwpy/signal.py: the transformers Variation, Amplitude,       *)
(* Energy, DetectArtifacts and Shutter, and the window helper              *)
(* Transformer._apply_window.                                              *)
(*                                                                         *)
(* An n-dimensional array is a record [shape, flat, dtype]: shape is the   *)
(* tuple of extents, flat the C-ordered buffer as a function on            *)
(* 0 .. size-1, dtype the element type.  Python indices are kept 0-based.  *)
(* Every transformer call is one action that takes the state from          *)
(* pc = "ready" (the arguments as the caller built them) to pc = "done"    *)
(* (the return value or the exception, and the arguments as the call left  *)
(* them).                                                                  *)
(***************************************************************************)
EXTENDS Integers, Sequences, FiniteSets, TLC

VARIABLES
    pc,             \* "ready" before the call, "done" after it
    called,         \* the transformer that was called
    err,            \* the exception the call raised, "none" if it returned
    returned,       \* "none" (raised), "input" (the argument itself), "new"
    result,         \* the value returned
    mask,           \* Shutter: the caller's mask array (mutated in place)
    mask_entry,     \* Shutter: the mask as it was when the call started
    dataRows,       \* Shutter: row count of self.data (row r is the value r)
    delay_ms,       \* Shutter: self.delay_ms, a rational or NaN
    scanned,        \* Shutter: the indices the loop tested, in order
    data,           \* the data argument of the other transformers
    data_entry,     \* data as it was when the call started
    bin_size,       \* self.bin_size of Variation, Amplitude, Energy
    file            \* the recording: sampling_rate, convert(max_volt)

vars == <<pc, called, err, returned, result, mask, mask_entry, dataRows,
          delay_ms, scanned, data, data_entry, bin_size, file>>

-----------------------------------------------------------------------------
(* Bounds of the model. *)

MaxLen == 4          \* longest mask
MaxMs == 5           \* largest |numerator| of delay_ms
MaxRate == 2         \* largest sampling rate
MaxSweeps == 2       \* largest sweep count (axis 0) of a data array
MaxChannels == 2     \* largest channel count (axis 1)
MaxSamples == 3      \* largest sample count (axis 2)

(* Program constants. *)

MsFactor == 1000     \* ms_to_idx: delay_ms * sampling_rate * 1000
ArtifactCount == 80  \* DetectArtifacts: np.sum(out_bounds, axis=(1, 2)) > 80
UpLimitPct == 98     \* DetectArtifacts: file.convert(file.max_volt) * 0.98
Int8Bits == 8        \* width of an int8 sample

-----------------------------------------------------------------------------
(* Arrays. *)

RECURSIVE Prod(_)
Prod(shape) == IF shape = <<>> THEN 1 ELSE Head(shape) * Prod(Tail(shape))

Ndim(a) == Len(a.shape)

Size(a) == Prod(a.shape)

NoArray == [shape |-> <<0>>, flat |-> <<>>, dtype |-> "none"]

BoolArrays(shape) ==
    { [shape |-> shape, flat |-> f, dtype |-> "bool"] :
        f \in [0 .. Prod(shape) - 1 -> BOOLEAN] }

-----------------------------------------------------------------------------
(* Element arithmetic. *)

RECURSIVE Pow2(_)
Pow2(n) == IF n = 0 THEN 1 ELSE 2 * Pow2(n - 1)

\* A result stored in int8: two's complement wrap-around.
WrapInt8(x) ==
    ((x + Pow2(Int8Bits - 1)) % Pow2(Int8Bits)) - Pow2(Int8Bits - 1)

\* The value an elementwise result takes in an array of type dtype.
Store(x, dtype) == IF dtype = "int8" THEN WrapInt8(x) ELSE x

\* np.abs and np.square keep the input's dtype.
NpAbs(x, dtype) == Store(IF x < 0 THEN -x ELSE x, dtype)

NpSquare(x, dtype) == Store(x * x, dtype)

SetMax(S) == CHOOSE x \in S : \A y \in S : y <= x

SetMin(S) == CHOOSE x \in S : \A y \in S : x <= y

RECURSIVE SumTo(_, _)
SumTo(f, n) == IF n = 0 THEN 0 ELSE f[n - 1] + SumTo(f, n - 1)

-----------------------------------------------------------------------------
(* Transformer._apply_window. *)

\* C-order strides (in elements) of an array of the given shape.
RECURSIVE Strides(_)
Strides(shape) ==
    IF shape = <<>> THEN <<>> ELSE <<Prod(Tail(shape))>> \o Strides(Tail(shape))

\* The multi-index of the q-th element, in C order, of an array of the shape.
RECURSIVE Unravel(_, _)
Unravel(q, shape) ==
    IF shape = <<>> THEN <<>>
    ELSE LET rest == Prod(Tail(shape))
         IN  <<q \div rest>> \o Unravel(q % rest, Tail(shape))

RECURSIVE Dot(_, _)
Dot(idx, strides) ==
    IF idx = <<>> THEN 0
    ELSE Head(idx) * Head(strides) + Dot(Tail(idx), Tail(strides))

\* window_shape = (rows, cols, bin_size)
WindowShape(a, bs) == <<a.shape[1], a.shape[2], bs>>

\* SlidingWindowError without the test that the window fits the array.
SlidingWindowErrorNoFitTest(a, ws) ==
    IF \E k \in 1 .. Len(ws) : ws[k] < 0 THEN "ValueError_window_negative"
    ELSE IF Len(ws) # Ndim(a) THEN "ValueError_window_ndim"
    ELSE "none"

\* What sliding_window_view(data, window_shape) refuses.
SlidingWindowError(a, ws) ==
    IF \E k \in 1 .. Len(ws) : ws[k] < 0 THEN "ValueError_window_negative"
    ELSE IF Len(ws) # Ndim(a) THEN "ValueError_window_ndim"
    ELSE IF \E k \in 1 .. Len(ws) : a.shape[k] < ws[k]
    THEN "ValueError_window_larger"
    ELSE "none"

\* ViewShape with the trim off by one: one window too few along every axis.
ViewShapeTrimmedByWindow(a, ws) ==
    [k \in 1 .. Len(ws) |-> a.shape[k] - ws[k]] \o ws

\* The shape of the view: the input's extents trimmed by the window, then the
\* window's extents.
ViewShape(a, ws) ==
    [k \in 1 .. Len(ws) |-> a.shape[k] - (ws[k] - 1)] \o ws

\* What .reshape(-1, rows, cols, bin_size) of an array of `size` elements
\* refuses: the unknown extent cannot be computed.
ReshapeError(size, known) ==
    IF known = 0 \/ size % known # 0 THEN "ValueError_reshape" ELSE "none"

\* The index into data's buffer of the q-th element of the view.
ViewOffset(a, ws, q) ==
    Dot(Unravel(q, ViewShape(a, ws)), Strides(a.shape) \o Strides(a.shape))

\* _apply_window(data, bin_size): the error it raises, or the 4-D array
\* (num_windows, rows, cols, bin_size).
ApplyWindow(a, bs) ==
    LET ws == WindowShape(a, bs)
        e1 == SlidingWindowError(a, ws)
    IN  IF e1 # "none" THEN [err |-> e1, win |-> NoArray]
        ELSE LET size == Prod(ViewShape(a, ws))
                 known == ws[1] * ws[2] * ws[3]
                 e2 == ReshapeError(size, known)
             IN  IF e2 # "none" THEN [err |-> e2, win |-> NoArray]
                 ELSE [err |-> "none",
                       win |-> [shape |-> <<size \div known, ws[1], ws[2], ws[3]>>,
                                flat |-> [q \in 0 .. size - 1 |->
                                            a.flat[ViewOffset(a, ws, q)]],
                                dtype |-> a.dtype]]

-----------------------------------------------------------------------------
(* Variation, Amplitude, Energy. *)

\* PassesThrough with the guard one dimension short.
PassesThroughBelowTwoDims(a) == Ndim(a) < 2

\* The guard shared by the transformers: data is returned as it is.
PassesThrough(a) == Ndim(a) < 3

\* The values of window array w along axis 3 at the r-th (window, row, col).
Bin(w, r) == [p \in 0 .. w.shape[4] - 1 |-> w.flat[r * w.shape[4] + p]]

\* The shape left when axis 3 of the 4-D array w is reduced.
Reduced(w) == <<w.shape[1], w.shape[2], w.shape[3]>>

AbsValues(b, n, dtype) == { NpAbs(b[p], dtype) : p \in 0 .. n - 1 }

\* np.max(np.abs(windows), axis=3) - np.min(np.abs(windows), axis=3)
VariationOf(w) ==
    [shape |-> Reduced(w),
     flat |-> [r \in 0 .. Prod(Reduced(w)) - 1 |->
                 LET av == AbsValues(Bin(w, r), w.shape[4], w.dtype)
                 IN  Store(SetMax(av) - SetMin(av), w.dtype)],
     dtype |-> w.dtype]

\* np.max(np.abs(windows), axis=3)
AmplitudeOf(w) ==
    [shape |-> Reduced(w),
     flat |-> [r \in 0 .. Prod(Reduced(w)) - 1 |->
                 SetMax(AbsValues(Bin(w, r), w.shape[4], w.dtype))],
     dtype |-> w.dtype]

\* The type np.sum accumulates in and returns: integers narrower than the
\* platform integer are summed as int64.
SumDtype(dtype) == IF dtype = "int8" THEN "int64" ELSE dtype

\* np.square(windows) along the bin b of length n.
Squares(b, n, dtype) == [p \in 0 .. n - 1 |-> NpSquare(b[p], dtype)]

\* np.sum(np.square(windows), axis=3)
EnergyOf(w) ==
    [shape |-> Reduced(w),
     flat |-> [r \in 0 .. Prod(Reduced(w)) - 1 |->
                 SumTo(Squares(Bin(w, r), w.shape[4], w.dtype), w.shape[4])],
     dtype |-> SumDtype(w.dtype)]

\* np.max and np.min over an axis of length 0 raise.
EmptyReduction(kind, w) ==
    kind \in {"Variation", "Amplitude"} /\ w.shape[4] = 0

\* Variation.__call__, Amplitude.__call__, Energy.__call__.
StatOutcome(kind, a, bs) ==
    IF PassesThrough(a)
    THEN [err |-> "none", returned |-> "input", result |-> a]
    ELSE LET w == ApplyWindow(a, bs) IN
         IF w.err # "none"
         THEN [err |-> w.err, returned |-> "none", result |-> NoArray]
         ELSE IF EmptyReduction(kind, w.win)
         THEN [err |-> "ValueError_zero_size_reduction", returned |-> "none",
               result |-> NoArray]
         ELSE [err |-> "none", returned |-> "new",
               result |-> CASE kind = "Variation" -> VariationOf(w.win)
                            [] kind = "Amplitude" -> AmplitudeOf(w.win)
                            [] OTHER -> EnergyOf(w.win)]

-----------------------------------------------------------------------------
(* DetectArtifacts. *)

\* data > up_limit, with up_limit = file.convert(file.max_volt) * 0.98
OutOfBounds(x, f) == x * 100 > f.conv_max_volt * UpLimitPct

\* np.sum(out_bounds, axis=(1, 2)) at sweep s and position m of the axes
\* after the third (m = 0 when there are none).
CountOut(a, f, s, m) ==
    LET C == a.shape[2]
        N == a.shape[3]
        M == Prod(SubSeq(a.shape, 4, Ndim(a)))
    IN  Cardinality({ cn \in (0 .. C - 1) \X (0 .. N - 1) :
                        OutOfBounds(a.flat[((s * C + cn[1]) * N + cn[2]) * M + m], f) })

\* IsArtifact with the comparison not strict.
IsArtifactAtLeast(count) == count >= ArtifactCount

\* ... > 80
IsArtifact(count) == count > ArtifactCount

\* DetectArtifacts.__call__
DetectOutcome(a, f) ==
    IF PassesThrough(a)
    THEN [err |-> "none", returned |-> "input", result |-> a]
    ELSE IF Ndim(a) < 3
    THEN \* np.sum over axis 2 of an array that has none
         [err |-> "AxisError", returned |-> "none", result |-> NoArray]
    ELSE LET M == Prod(SubSeq(a.shape, 4, Ndim(a))) IN
         [err |-> "none", returned |-> "new",
          result |-> [shape |-> <<a.shape[1]>> \o SubSeq(a.shape, 4, Ndim(a)),
                      flat |-> [r \in 0 .. a.shape[1] * M - 1 |->
                                  IsArtifact(CountOut(a, f, r \div M, r % M))],
                      dtype |-> "bool"]]

-----------------------------------------------------------------------------
(* Shutter. *)

\* int(x) of Python: truncation towards zero of the rational a / b, b > 0.
PyInt(a, b) == IF a >= 0 THEN a \div b ELSE -((-a) \div b)

\* Shutter.ms_to_idx: int(delay_ms * file.sampling_rate * 1000).  delay_ms is
\* the rational num / den; int() of a NaN raises ValueError.
ms_to_idx(f, ms) ==
    IF ms.nan
    THEN [err |-> "ValueError_nan", val |-> 0]
    ELSE [err |-> "none",
          val |-> PyInt(ms.num * f.sampling_rate * MsFactor, ms.den)]

\* range(start, stop, -1) as the sequence of its values.
RECURSIVE RangeDown(_, _)
RangeDown(start, stop) ==
    IF start <= stop THEN <<>> ELSE <<start>> \o RangeDown(start - 1, stop)

\* The indices `for i in range(len(mask) - 1, 0, -1)` runs over.
ScanRange(len) == RangeDown(len - 1, 0)

\* A slice bound of Python, normalised against a sequence of length len.
SliceBound(x, len) ==
    IF x < 0 THEN (IF x + len < 0 THEN 0 ELSE x + len)
    ELSE (IF x > len THEN len ELSE x)

\* The stop of the slice the loop assigns at index i.
SliceStop(i, delay) == i + delay

\* mask[start : stop] = 1 on the flat buffer of a 1-D mask.
SetSlice(flat, len, start, stop) ==
    [j \in 0 .. len - 1 |->
        IF SliceBound(start, len) <= j /\ j < SliceBound(stop, len)
        THEN TRUE ELSE flat[j]]

\* The loop body at index i: if mask[i]: mask[i : i + delay] = 1.
ScanStep(flat, len, i, delay) ==
    IF flat[i] THEN SetSlice(flat, len, i, SliceStop(i, delay)) ELSE flat

\* The loop over the indices of idxs, in order.
RECURSIVE ScanLoop(_, _, _, _)
ScanLoop(flat, len, idxs, delay) ==
    IF idxs = <<>> THEN flat
    ELSE ScanLoop(ScanStep(flat, len, Head(idxs), delay), len, Tail(idxs), delay)

\* self.data[mask] for a 1-D boolean mask: the rows whose entry is True, in
\* row order; a mask whose length is not the row count raises IndexError.
RECURSIVE SelectRows(_, _, _)
SelectRows(flat, len, j) ==
    IF j >= len THEN <<>>
    ELSE (IF flat[j] THEN <<j>> ELSE <<>>) \o SelectRows(flat, len, j + 1)

\* The guard of Shutter.__call__: the mask's dimensionality is rejected.
ShutterRejects(m) == Ndim(m) > 1

\* Shutter.__call__, whole: what it raises or returns, the mask as it leaves
\* it, the indices it tested.
ShutterOutcome(m, rows, ms, f) ==
    IF ShutterRejects(m)
    THEN [err |-> "ValueError_mask_1dim", mask |-> m, result |-> <<>>,
          scanned |-> <<>>]
    ELSE LET d == ms_to_idx(f, ms) IN
    IF d.err # "none"
    THEN [err |-> d.err, mask |-> m, result |-> <<>>, scanned |-> <<>>]
    ELSE IF Ndim(m) = 0
    THEN \* len() of a 0-dimensional array
         [err |-> "TypeError_len_unsized", mask |-> m, result |-> <<>>,
          scanned |-> <<>>]
    ELSE LET len == m.shape[1]
             idxs == ScanRange(len)
             out == [m EXCEPT !.flat = ScanLoop(m.flat, len, idxs, d.val)]
         IN  IF len # rows
             THEN [err |-> "IndexError_bool_index", mask |-> out,
                   result |-> <<>>, scanned |-> idxs]
             ELSE [err |-> "none", mask |-> out,
                   result |-> SelectRows(out.flat, len, 0), scanned |-> idxs]

ShutterMasks ==
    UNION { BoolArrays(<<len>>) : len \in 0 .. MaxLen }
      \cup BoolArrays(<<>>)
      \cup UNION { BoolArrays(<<1, len>>) : len \in 1 .. 2 }

DelayValues ==
    { [num |-> n, den |-> dn, nan |-> FALSE] :
        n \in -MaxMs .. MaxMs, dn \in {1000, 2000} }
      \cup { [num |-> 0, den |-> 1, nan |-> TRUE] }

Files == { [sampling_rate |-> r, conv_max_volt |-> v] :
             r \in 1 .. MaxRate, v \in {100} }

InitShutter ==
    /\ pc = "ready" /\ called = "none" /\ err = "none"
    /\ returned = "none" /\ result = <<>>
    /\ mask \in ShutterMasks
    /\ mask_entry = mask
    /\ dataRows \in (IF Ndim(mask) = 1
                     THEN {r \in mask.shape[1] - 1 .. mask.shape[1] + 1 : r >= 0}
                     ELSE {1})
    /\ delay_ms \in DelayValues
    /\ scanned = <<>>
    /\ data = NoArray /\ data_entry = NoArray /\ bin_size = 0
    /\ file \in Files

CallShutter ==
    /\ pc = "ready"
    /\ LET out == ShutterOutcome(mask, dataRows, delay_ms, file) IN
         /\ err' = out.err
         /\ mask' = out.mask
         /\ result' = out.result
         /\ scanned' = out.scanned
         /\ returned' = IF out.err = "none" THEN "new" ELSE "none"
    /\ called' = "Shutter"
    /\ pc' = "done"
    /\ UNCHANGED <<mask_entry, dataRows, delay_ms, data, data_entry, bin_size, file>>

NextShutter == CallShutter

SpecShutter == InitShutter /\ [][NextShutter]_vars

-----------------------------------------------------------------------------
(* The statistic transformers and _apply_window on small arrays. *)

SampleValues == {-3, 0, 12}

Dtypes == {"int8", "float64"}

DataShapes ==
    {<<>>}
      \cup { <<s>> : s \in 0 .. MaxSweeps }
      \cup { <<s, c>> : s \in 0 .. MaxSweeps, c \in 0 .. MaxChannels }
      \cup { <<s, c, n>> : s \in 0 .. MaxSweeps, c \in 0 .. MaxChannels,
                           n \in 0 .. MaxSamples }
      \cup { <<1, 1, n, 2>> : n \in 1 .. MaxSamples }

\* The arrays of a shape that are zero but for the value v at position pos.
SpikeArrays(shape) ==
    { [shape |-> shape,
       flat |-> [q \in 0 .. Prod(shape) - 1 |-> IF q = pos THEN v ELSE 0],
       dtype |-> dt] :
        pos \in 0 .. (IF Prod(shape) = 0 THEN 0 ELSE Prod(shape) - 1),
        v \in SampleValues, dt \in Dtypes }

DataArrays == UNION { SpikeArrays(shape) : shape \in DataShapes }

BinSizes == -1 .. MaxSamples + 1

StatFile == [sampling_rate |-> 1, conv_max_volt |-> 10]

InitStat ==
    /\ pc = "ready" /\ called = "none" /\ err = "none"
    /\ returned = "none" /\ result = NoArray
    /\ mask = NoArray /\ mask_entry = NoArray /\ dataRows = 0
    /\ delay_ms = [num |-> 0, den |-> 1, nan |-> FALSE]
    /\ scanned = <<>>
    /\ data \in DataArrays
    /\ data_entry = data
    /\ bin_size \in BinSizes
    /\ file = StatFile

\* What no transformer but Shutter touches.
ShutterUnchanged == UNCHANGED <<mask, mask_entry, dataRows, delay_ms, scanned>>

CallVariation ==
    /\ pc = "ready"
    /\ LET out == StatOutcome("Variation", data, bin_size) IN
         /\ err' = out.err /\ returned' = out.returned /\ result' = out.result
    /\ called' = "Variation"
    /\ pc' = "done"
    /\ ShutterUnchanged
    /\ UNCHANGED <<data, data_entry, bin_size, file>>

CallAmplitude ==
    /\ pc = "ready"
    /\ LET out == StatOutcome("Amplitude", data, bin_size) IN
         /\ err' = out.err /\ returned' = out.returned /\ result' = out.result
    /\ called' = "Amplitude"
    /\ pc' = "done"
    /\ ShutterUnchanged
    /\ UNCHANGED <<data, data_entry, bin_size, file>>

CallEnergy ==
    /\ pc = "ready"
    /\ LET out == StatOutcome("Energy", data, bin_size) IN
         /\ err' = out.err /\ returned' = out.returned /\ result' = out.result
    /\ called' = "Energy"
    /\ pc' = "done"
    /\ ShutterUnchanged
    /\ UNCHANGED <<data, data_entry, bin_size, file>>

CallDetectArtifacts ==
    /\ pc = "ready"
    /\ LET out == DetectOutcome(data, file) IN
         /\ err' = out.err /\ returned' = out.returned /\ result' = out.result
    /\ called' = "DetectArtifacts"
    /\ pc' = "done"
    /\ ShutterUnchanged
    /\ UNCHANGED <<data, data_entry, bin_size, file>>

\* self._apply_window(data, self.bin_size), as the transformers call it: on
\* data of three or more dimensions.
CallApplyWindow ==
    /\ pc = "ready"
    /\ ~PassesThrough(data)
    /\ LET w == ApplyWindow(data, bin_size) IN
         /\ err' = w.err
         /\ returned' = IF w.err = "none" THEN "new" ELSE "none"
         /\ result' = w.win
    /\ called' = "_apply_window"
    /\ pc' = "done"
    /\ ShutterUnchanged
    /\ UNCHANGED <<data, data_entry, bin_size, file>>

NextStat ==
    \/ CallVariation
    \/ CallAmplitude
    \/ CallEnergy
    \/ CallDetectArtifacts
    \/ CallApplyWindow

SpecStat == InitStat /\ [][NextStat]_vars

-----------------------------------------------------------------------------
(* DetectArtifacts on sweeps long enough to reach the artifact count. *)

ArtChannels == 2     \* channels of a long sweep
ArtSamples == 41     \* samples per channel of a long sweep

\* Per sweep: how many leading samples (in channel-major order) lie above
\* 0.98 * 100, and how many after them lie exactly on it.
AboveCounts == {0} \cup (ArtifactCount - 1 .. ArtifactCount + 1)

OnBoundCounts == {0, 1}

SweepPatterns == AboveCounts \X OnBoundCounts

LongSweeps(S) ==
    { [shape |-> <<S, ArtChannels, ArtSamples>>,
       flat |-> [q \in 0 .. S * ArtChannels * ArtSamples - 1 |->
                   LET pat == pats[(q \div (ArtChannels * ArtSamples)) + 1]
                       at == q % (ArtChannels * ArtSamples)
                   IN  IF at < pat[1] THEN 99
                       ELSE IF at < pat[1] + pat[2] THEN 98
                       ELSE 0],
       dtype |-> "float64"] :
        pats \in [1 .. S -> SweepPatterns] }

ArtFiles == { [sampling_rate |-> 1, conv_max_volt |-> v] : v \in {50, 100} }

InitArtifacts ==
    /\ pc = "ready" /\ called = "none" /\ err = "none"
    /\ returned = "none" /\ result = NoArray
    /\ mask = NoArray /\ mask_entry = NoArray /\ dataRows = 0
    /\ delay_ms = [num |-> 0, den |-> 1, nan |-> FALSE]
    /\ scanned = <<>>
    /\ data \in UNION { LongSweeps(S) : S \in 0 .. MaxSweeps }
    /\ data_entry = data
    /\ bin_size = 0
    /\ file \in ArtFiles

NextArtifacts == CallDetectArtifacts

SpecArtifacts == InitArtifacts /\ [][NextArtifacts]_vars

-----------------------------------------------------------------------------
(* Properties of Shutter, checked under SpecShutter. *)

ShutterDone == pc = "done" /\ called = "Shutter"

\* The index delay Shutter computes, when the computation succeeds.
DelayOk == ms_to_idx(file, delay_ms).err = "none"

Delay == ms_to_idx(file, delay_ms).val

EntryLen == mask_entry.shape[1]

Min(a, b) == IF a <= b THEN a ELSE b

\* Row j lies in the inclusive reach i .. min(i + d, L - 1) of an entry i
\* flagged on entry.
InReach(j, d) ==
    \E i \in 0 .. EntryLen - 1 :
        mask_entry.flat[i] /\ i <= j /\ j <= Min(i + d, EntryLen - 1)

RECURSIVE RowsInReach(_, _)
RowsInReach(j, d) ==
    IF j >= EntryLen THEN <<>>
    ELSE (IF InReach(j, d) THEN <<j>> ELSE <<>>) \o RowsInReach(j + 1, d)

\* C1: for a 1-D mask of length L, a delay d >= 0 and an L-row dataset,
\* Shutter returns exactly the rows j with an entry i flagged on entry and
\* i <= j <= min(i + d, L - 1), in row order.
C1_ShutterSelectsInclusiveReach ==
    (ShutterDone /\ Ndim(mask_entry) = 1 /\ DelayOk /\ Delay >= 0
       /\ dataRows = EntryLen)
    => (err = "none" /\ returned = "new" /\ result = RowsInReach(0, Delay))

\* C2: a mask whose dimensionality is not exactly 1 makes Shutter fail with
\* the shape error, return nothing and leave the mask as it was.
C2_NonOneDimMaskIsShapeError ==
    (ShutterDone /\ Ndim(mask_entry) # 1)
    => (err = "ValueError_mask_1dim" /\ returned = "none" /\ mask = mask_entry)

\* C3: whenever a Shutter call fails, the caller's mask holds the values it
\* held before the call.
C3_FailedShutterLeavesMask ==
    (ShutterDone /\ err # "none") => mask = mask_entry

\* C4: for a 1-D mask and a delay d Shutter accepts without raising, every
\* entry j flagged after the call was flagged on entry or has an entry i
\* flagged on entry with i < j and j - i <= d.
C4_ExpansionOnlyForwardWithinDelay ==
    (ShutterDone /\ Ndim(mask_entry) = 1 /\ err = "none")
    => \A j \in 0 .. EntryLen - 1 :
         mask.flat[j] =>
           \/ mask_entry.flat[j]
           \/ \E i \in 0 .. EntryLen - 1 :
                mask_entry.flat[i] /\ i < j /\ j - i <= Delay

\* C10: the reverse scan tests every index from the last down to and
\* including 0, each once; so with entry 0 flagged on entry, a length >= 2
\* and a delay >= 1, entry 1 is flagged after the call.
C10_ScanReachesIndexZero ==
    (ShutterDone /\ Ndim(mask_entry) = 1 /\ DelayOk)
    => /\ scanned = RangeDown(EntryLen - 1, -1)
       /\ (EntryLen >= 2 /\ mask_entry.flat[0] /\ Delay >= 1) => mask.flat[1]

\* What the loop does for a delay d >= 0: entry j is flagged after the call
\* exactly when it was flagged on entry or an entry i >= 1 flagged on entry
\* has i <= j < i + d.
ShutterExpansionAsCoded ==
    (ShutterDone /\ Ndim(mask_entry) = 1 /\ DelayOk /\ Delay >= 0)
    => \A j \in 0 .. EntryLen - 1 :
         mask.flat[j] <=>
           \/ mask_entry.flat[j]
           \/ \E i \in 1 .. EntryLen - 1 :
                mask_entry.flat[i] /\ i <= j /\ j < i + Delay

-----------------------------------------------------------------------------
(* Properties of _apply_window and the statistic transformers, checked     *)
(* under SpecStat.                                                         *)

StatKinds == {"Variation", "Amplitude", "Energy"}

Sweeps == data_entry.shape[1]

Channels == data_entry.shape[2]

Samples == data_entry.shape[3]

WindowDone ==
    /\ pc = "done" /\ called = "_apply_window" /\ Ndim(data_entry) = 3
    /\ 1 <= bin_size /\ bin_size <= Samples

\* The windows of the claim: N - b + 1 of them, of shape (S, C, b), window k
\* at (s, c, p) being data[s, c, k + p]; data untouched.
WindowsAsClaimed ==
    /\ err = "none" /\ returned = "new"
    /\ result.shape = <<Samples - bin_size + 1, Sweeps, Channels, bin_size>>
    /\ \A k \in 0 .. Samples - bin_size, s1 \in 0 .. Sweeps - 1,
          c \in 0 .. Channels - 1, p \in 0 .. bin_size - 1 :
         result.flat[((k * Sweeps + s1) * Channels + c) * bin_size + p]
           = data_entry.flat[(s1 * Channels + c) * Samples + k + p]
    /\ data = data_entry

\* C5 as stated: for every 3-D array (S, C, N) and every 1 <= b <= N,
\* _apply_window yields exactly N - b + 1 windows of shape (S, C, b), ordered
\* by start index, and leaves the input as it was.
C5_WindowsForEveryArray == WindowDone => WindowsAsClaimed

\* C5 amended: the same for every 3-D array with at least one sweep and at
\* least one channel.
C5_WindowsForNonEmptyArray ==
    (WindowDone /\ Sweeps >= 1 /\ Channels >= 1) => WindowsAsClaimed

C5_Witness ==
    /\ WindowDone /\ Sweeps = 2 /\ Channels = 2 /\ Samples = 3 /\ bin_size = 2
    /\ result.shape[1] = 2
    /\ data_entry.flat[7] = 12 /\ result.flat[5] = 12 /\ result.flat[12] = 12

\* C6: for a 3-D array with N samples, Variation, Amplitude and Energy called
\* with a bin_size outside 1 .. N raise a ValueError and return nothing.
C6_BinSizeOutOfRangeRaises ==
    (pc = "done" /\ called \in StatKinds /\ Ndim(data_entry) = 3
       /\ (bin_size < 1 \/ bin_size > Samples))
    => /\ err \in {"ValueError_window_negative", "ValueError_window_larger",
                   "ValueError_reshape"}
       /\ returned = "none"
       /\ result = NoArray

C6_Witness ==
    /\ pc = "done" /\ called = "Energy" /\ data_entry.shape = <<2, 2, 3>>
    /\ bin_size = 0 /\ err = "ValueError_reshape"

\* C8: on data of fewer than three dimensions (no sample axis), Variation,
\* Amplitude, Energy and DetectArtifacts return the input itself, unchanged,
\* without an error, whatever the bin_size.
C8_PassThroughBelowThreeDims ==
    (pc = "done" /\ called \in StatKinds \cup {"DetectArtifacts"}
       /\ Ndim(data_entry) < 3)
    => /\ err = "none"
       /\ returned = "input"
       /\ result = data_entry
       /\ data = data_entry

C8_Witness ==
    /\ pc = "done" /\ called = "Variation" /\ data_entry.shape = <<2, 2>>
    /\ bin_size = 4 /\ returned = "input" /\ result.flat[3] = -3

\* The sum of the squares, as integers, of the samples of window k of sweep
\* s1, channel c.
RECURSIVE SumSquares(_, _, _, _)
SumSquares(s1, c, k, n) ==
    IF n = 0 THEN 0
    ELSE LET x == data_entry.flat[(s1 * Channels + c) * Samples + k + n - 1]
         IN  x * x + SumSquares(s1, c, k, n - 1)

\* C9: for every 3-D numeric array, whatever its element type, and every
\* valid bin_size, every element of the Energy result is >= 0 and is the sum
\* of the squares of its window's samples (0 for an all-zero window).
C9_EnergyIsSumOfSquares ==
    (pc = "done" /\ called = "Energy" /\ Ndim(data_entry) = 3
       /\ returned = "new")
    => \A k \in 0 .. Samples - bin_size, s1 \in 0 .. Sweeps - 1,
          c \in 0 .. Channels - 1 :
         LET e == result.flat[(k * Sweeps + s1) * Channels + c]
         IN  e >= 0 /\ e = SumSquares(s1, c, k, bin_size)

-----------------------------------------------------------------------------
(* Properties of DetectArtifacts, checked under SpecArtifacts.             *)

\* The samples of sweep s1, over all channels and positions, that are
\* strictly above 0.98 * convert(max_volt).
SamplesAbove(s1) ==
    { q \in 0 .. Channels * Samples - 1 :
        data_entry.flat[s1 * Channels * Samples + q] * 100
          > file.conv_max_volt * 98 }

\* C7: on a 3-D array DetectArtifacts returns one boolean per sweep, True
\* exactly when more than 80 samples of the sweep (all channels and
\* positions together) are strictly above 0.98 * convert(max_volt).
C7_ArtifactMaskPerSweep ==
    (pc = "done" /\ called = "DetectArtifacts" /\ Ndim(data_entry) = 3)
    => /\ err = "none" /\ returned = "new"
       /\ result.shape = <<Sweeps>>
       /\ DOMAIN result.flat = 0 .. Sweeps - 1
       /\ \A s1 \in 0 .. Sweeps - 1 :
            result.flat[s1] = (Cardinality(SamplesAbove(s1)) > 80)

\* Two sweeps, 81 samples above in the first (True), 80 above and one on the
\* bound in the second (False).
C7_Witness ==
    /\ pc = "done" /\ called = "DetectArtifacts" /\ Sweeps = 2
    /\ file.conv_max_volt = 100
    /\ Cardinality(SamplesAbove(0)) = 81 /\ result.flat[0] = TRUE
    /\ Cardinality(SamplesAbove(1)) = 80 /\ result.flat[1] = FALSE
    /\ data_entry.flat[Channels * Samples + 80] = 98

====
